---------------------------- MODULE Spec2Model ----------------------------
(***************************************************************************)
(* Model of the no-scams bot (src/run.py, src/no_scams/utils.py): the      *)
(* per-(guild, author) message store, the fingerprinting of a message, the *)
(* is_scam predicate, and the on_message handler with its remediation.     *)
(* Every event runs on_message as its own asyncio task; a task runs        *)
(* without interruption between two awaits, so one action of the model is  *)
(* the code executed from one await to the next.                           *)
(***************************************************************************)
EXTENDS Naturals, Sequences, FiniteSets, TLC

VARIABLES
    store,    \* MessageStore._messages: (guild id, author id) -> list of Message
    nextId,   \* number of message events dispatched so far
    task,     \* per event: the state of the on_message coroutine handling it
    fnLst,    \* argument list of a direct call of all_same / all_different
    fnOut     \* result of a direct call of a pure function

vars == <<store, nextId, task, fnLst, fnOut>>

(***************************************************************************)
(* Program constants.                                                      *)
(***************************************************************************)
MAX_MESSAGE_NUM == 3
TIMEOUT_MINUTES == 15

\* Guild and channel ids are snowflakes; the model uses small stand-ins.
\* Guild 2 stands for the one guild of SPECIAL_GUILD_CHANNELS, channel 4 for
\* its notification channel.
Guilds == {1, 2}
Authors == {1, 2}
Channels == {1, 2, 3}
SPECIAL_GUILD_CHANNELS == (2 :> 4)
None == 0

IMAGE_EXTENSIONS ==
    { <<".", "p", "n", "g">>, <<".", "j", "p", "g">>, <<".", "j", "p", "e", "g">>,
      <<".", "g", "i", "f">>, <<".", "b", "m", "p">>, <<".", "w", "e", "b", "p">> }

(***************************************************************************)
(* Bounds of the model.                                                    *)
(***************************************************************************)
MaxEvents == 4     \* message events dispatched in one run
MaxInFlight == 2   \* on_message tasks suspended at an await at the same time
FnMaxLen == 3      \* longest list passed to all_same / all_different directly

(***************************************************************************)
(* Python values.  A str is a tuple of characters; the values that reach   *)
(* all_same / all_different carry their type, which decides truthiness.    *)
(***************************************************************************)
PyStr(s) == [type |-> "str", val |-> s]
PyFrozenset(S) == [type |-> "frozenset", val |-> S]
PyInt(n) == [type |-> "int", val |-> n]

\* bool(x): an empty str, an empty frozenset and 0 are falsy.
Truthy(x) ==
    CASE x.type = "str" -> Len(x.val) # 0
      [] x.type = "frozenset" -> x.val # {}
      [] x.type = "int" -> x.val # 0

startswith(s, p) == Len(s) >= Len(p) /\ SubSeq(s, 1, Len(p)) = p
endswith(s, p) == Len(s) >= Len(p) /\ SubSeq(s, Len(s) - Len(p) + 1, Len(s)) = p

\* str.lower() on the letters the model's file names use.
LowerChar(c) ==
    CASE c = "P" -> "p" [] c = "N" -> "n" [] c = "G" -> "g" [] c = "A" -> "a"
      [] OTHER -> c
lower(s) == [i \in 1..Len(s) |-> LowerChar(s[i])]

(***************************************************************************)
(* contains_url: re.search(r"https?://\S+", content).  The pattern is a    *)
(* sequence of items; MatchHere tries to match items p.. of the pattern at *)
(* position i of the string, re.search tries every start position.        *)
(***************************************************************************)
Whitespace == {" ", "\t", "\n", "\r"}

Lit(c) == [kind |-> "lit", c |-> c]
Opt(c) == [kind |-> "opt", c |-> c]
PlusNonSpace == [kind |-> "plus_nonspace", c |-> ""]

UrlPattern ==
    << Lit("h"), Lit("t"), Lit("t"), Lit("p"), Opt("s"),
       Lit(":"), Lit("/"), Lit("/"), PlusNonSpace >>

RECURSIVE MatchHere(_, _, _, _)
MatchHere(pat, p, s, i) ==
    IF p > Len(pat) THEN TRUE
    ELSE CASE pat[p].kind = "lit" ->
                 /\ i <= Len(s)
                 /\ s[i] = pat[p].c
                 /\ MatchHere(pat, p + 1, s, i + 1)
           [] pat[p].kind = "opt" ->
                 \/ /\ i <= Len(s)
                    /\ s[i] = pat[p].c
                    /\ MatchHere(pat, p + 1, s, i + 1)
                 \/ MatchHere(pat, p + 1, s, i)
           [] pat[p].kind = "plus_nonspace" ->
                 \* \S+ : at least one non-whitespace character; as the
                 \* last item of the pattern one such character suffices.
                 /\ i <= Len(s)
                 /\ s[i] \notin Whitespace
                 /\ \E j \in (i + 1)..(Len(s) + 1) :
                        /\ \A k \in i..(j - 1) : s[k] \notin Whitespace
                        /\ MatchHere(pat, p + 1, s, j)

re_search(pat, s) == \E i \in 1..(Len(s) + 1) : MatchHere(pat, 1, s, i)

contains_url(content) == re_search(UrlPattern, content)

(***************************************************************************)
(* all_same, all_different (MessageStore static methods; utils.py holds    *)
(* the same two functions).                                                *)
(***************************************************************************)
\* all_same with the "if not lst[0]" test left out.
all_same_without_truthiness(lst) ==
    IF Len(lst) = 0 \/ Len(lst) = 1 THEN FALSE
    ELSE \A i \in 1..Len(lst) : lst[i] = lst[1]

all_same(lst) ==
    IF Len(lst) = 0 \/ Len(lst) = 1 THEN FALSE
    ELSE IF ~Truthy(lst[1]) THEN FALSE
    ELSE \A i \in 1..Len(lst) : lst[i] = lst[1]

\* all_different with the early return taken for lists of up to two elements.
all_different_early_return(lst) ==
    IF Len(lst) <= 2 THEN TRUE
    ELSE Cardinality({lst[i] : i \in 1..Len(lst)}) = Len(lst)

\* all_different comparing each element with its successor only.
all_different_neighbours(lst) ==
    IF Len(lst) = 0 \/ Len(lst) = 1 THEN TRUE
    ELSE \A i \in 1..(Len(lst) - 1) : lst[i] # lst[i + 1]

all_different(lst) ==
    IF Len(lst) = 0 \/ Len(lst) = 1 THEN TRUE
    ELSE Cardinality({lst[i] : i \in 1..Len(lst)}) = Len(lst)


(***************************************************************************)
(* Attachments and fingerprinting (Message.from_discord_message).          *)
(***************************************************************************)
\* imagehash.average_hash(Image.open(fp)): a perceptual hash, equal for
\* images that look alike.  Images 1 and 2 look alike, image 3 does not.
get_image_hash(image) == (image + 1) \div 2

NoContentType == [present |-> FALSE, val |-> <<>>]
ContentType(s) == [present |-> TRUE, val |-> s]

\* The three tests of the loop body at lines 64-71: the attachment reaches
\* extract_image_hash only if none of the three "continue"s is taken.
Qualifies(attachment) ==
    IF ~attachment.content_type.present THEN FALSE
    ELSE IF ~startswith(attachment.content_type.val, <<"i", "m", "a", "g", "e", "/">>)
         THEN FALSE
    ELSE LET filename == lower(attachment.filename)
         IN  \E ext \in IMAGE_EXTENSIONS : endswith(filename, ext)

\* Index of the first attachment at or after position from for which the
\* loop awaits extract_image_hash; 0 when the loop runs to its end.
NextQualifying(attachments, from) ==
    LET q == {i \in from..Len(attachments) : Qualifies(attachments[i])}
    IN  IF q = {} THEN 0 ELSE CHOOSE i \in q : \A j \in q : i <= j

\* frozenset(image_hashes)
frozenset(lst) == {lst[i] : i \in 1..Len(lst)}

\* cls(id=..., channel_id=..., content=..., image_hashes=frozenset(image_hashes))
from_discord_message(message, image_hashes) ==
    [ id |-> message.id,
      channel_id |-> message.channel,
      content |-> message.content,
      image_hashes |-> frozenset(image_hashes) ]

(***************************************************************************)
(* MessageStore.                                                           *)
(***************************************************************************)
Keys == Guilds \X Authors

KeyOf(message) == <<message.guild, message.author>>

\* remove_message with the bound off by one.
remove_message_off_by_one(st, guild_id, author_id) ==
    IF Len(st[<<guild_id, author_id>>]) > MAX_MESSAGE_NUM + 1
    THEN [st EXCEPT ![<<guild_id, author_id>>] = Tail(@)]
    ELSE st

\* remove_message with pop() in place of pop(0): the newest entry goes.
remove_message_pop_last(st, guild_id, author_id) ==
    IF Len(st[<<guild_id, author_id>>]) > MAX_MESSAGE_NUM
    THEN [st EXCEPT ![<<guild_id, author_id>>] = SubSeq(@, 1, Len(@) - 1)]
    ELSE st

remove_message(st, guild_id, author_id) ==
    IF Len(st[<<guild_id, author_id>>]) > MAX_MESSAGE_NUM
    THEN [st EXCEPT ![<<guild_id, author_id>>] = Tail(@)]
    ELSE st

\* The part of add_message after the await: the append and remove_message.
add_message(st, message, fingerprint) ==
    IF message.guild = None THEN st
    ELSE remove_message([st EXCEPT ![KeyOf(message)] = Append(@, fingerprint)],
                        message.guild, message.author)

\* clear_messages emptying the whole mapping instead of one key's list.
clear_messages_every_key(st, guild_id, author_id) ==
    [k \in DOMAIN st |-> <<>>]

clear_messages(st, guild_id, author_id) ==
    [st EXCEPT ![<<guild_id, author_id>>] = <<>>]

\* get_scam_messages looking the author up in every guild.
get_scam_messages_any_guild(st, message) ==
    IF message.guild = None THEN <<>>
    ELSE st[<<1, message.author>>] \o st[<<2, message.author>>]

get_scam_messages(st, message) ==
    IF message.guild = None THEN <<>> ELSE st[KeyOf(message)]

\* is_scam with different_channels left out of its return expression.
is_scam_without_channels(st, message) ==
    LET messages == IF message.guild = None THEN <<>> ELSE st[KeyOf(message)]
        n == Len(messages)
    IN  IF n < MAX_MESSAGE_NUM THEN FALSE
        ELSE LET same_content ==
                     all_same([i \in 1..n |-> PyStr(messages[i].content)])
                 all_contain_url ==
                     \A i \in 1..n : contains_url(messages[i].content)
                 same_images ==
                     all_same([i \in 1..n |-> PyFrozenset(messages[i].image_hashes)])
             IN  (all_contain_url /\ same_content) \/ same_images

\* is_scam without the early return on a window shorter than MAX_MESSAGE_NUM.
is_scam_without_gate(st, message) ==
    LET messages == IF message.guild = None THEN <<>> ELSE st[KeyOf(message)]
        n == Len(messages)
        same_content == all_same([i \in 1..n |-> PyStr(messages[i].content)])
        different_channels ==
            all_different([i \in 1..n |-> PyInt(messages[i].channel_id)])
        all_contain_url == \A i \in 1..n : contains_url(messages[i].content)
        same_images ==
            all_same([i \in 1..n |-> PyFrozenset(messages[i].image_hashes)])
    IN  different_channels /\ ((all_contain_url /\ same_content) \/ same_images)

\* is_scam with the parentheses of its return expression shifted:
\* (different_channels and all_contain_url and same_content) or same_images.
is_scam_shifted_precedence(st, message) ==
    LET messages == IF message.guild = None THEN <<>> ELSE st[KeyOf(message)]
        n == Len(messages)
    IN  IF n < MAX_MESSAGE_NUM THEN FALSE
        ELSE LET same_content ==
                     all_same([i \in 1..n |-> PyStr(messages[i].content)])
                 different_channels ==
                     all_different([i \in 1..n |-> PyInt(messages[i].channel_id)])
                 all_contain_url ==
                     \A i \in 1..n : contains_url(messages[i].content)
                 same_images ==
                     all_same([i \in 1..n |-> PyFrozenset(messages[i].image_hashes)])
             IN  (different_channels /\ all_contain_url /\ same_content)
                 \/ same_images

is_scam(st, message) ==
    LET messages == get_scam_messages(st, message)
        n == Len(messages)
    IN  IF n < MAX_MESSAGE_NUM THEN FALSE
        ELSE LET same_content ==
                     all_same([i \in 1..n |-> PyStr(messages[i].content)])
                 different_channels ==
                     all_different([i \in 1..n |-> PyInt(messages[i].channel_id)])
                 all_contain_url ==
                     \A i \in 1..n : contains_url(messages[i].content)
                 same_images ==
                     all_same([i \in 1..n |-> PyFrozenset(messages[i].image_hashes)])
             IN  different_channels
                 /\ ((all_contain_url /\ same_content) \/ same_images)


(***************************************************************************)
(* The inbound events (discord.Message) the model draws from.              *)
(***************************************************************************)
Str_empty == <<>>
Str_hi == <<"h", "i">>
Str_url_a == <<"h", "t", "t", "p", ":", "/", "/", "a">>
Str_url_b == <<"h", "t", "t", "p", "s", ":", "/", "/", "b">>
Str_url_bare == <<"h", "t", "t", "p", ":", "/", "/">>
Str_url_space == <<"h", "t", "t", "p", ":", "/", "/", " ", "a">>

Str_image_png == <<"i", "m", "a", "g", "e", "/", "p", "n", "g">>
Str_text_plain == <<"t", "e", "x", "t", "/", "p", "l", "a", "i", "n">>

\* A qualifying image, a second one with another hash, and three files the
\* loop skips: no content type, a content type that is no image, no image
\* extension.
Att_a == [content_type |-> ContentType(Str_image_png),
          filename |-> <<"a", ".", "P", "N", "G">>, image |-> 1]
Att_b == [content_type |-> ContentType(Str_image_png),
          filename |-> <<"b", ".", "g", "i", "f">>, image |-> 3]
Att_untyped == [content_type |-> NoContentType,
                filename |-> <<"a", ".", "p", "n", "g">>, image |-> 1]
Att_text == [content_type |-> ContentType(Str_text_plain),
             filename |-> <<"a", ".", "p", "n", "g">>, image |-> 1]
Att_noext == [content_type |-> ContentType(Str_image_png),
              filename |-> <<"a">>, image |-> 1]

\* (content, attachments) of the messages of the main specification.
Shape_url == <<Str_url_a, <<>> >>
Shape_image == <<Str_hi, <<Att_a>> >>
Shape_images == <<Str_empty, <<Att_untyped, Att_a, Att_text, Att_b, Att_noext>> >>

RawMessage(id, guild, author, bot, webhook, channel, shape) ==
    [ id |-> id, guild |-> guild, author |-> author, bot |-> bot,
      webhook |-> webhook, channel |-> channel,
      content |-> shape[1], attachments |-> shape[2] ]

NoMessage == RawMessage(0, None, 0, FALSE, FALSE, 0, <<Str_empty, <<>> >>)

\* The events with message id `id`.  Author 1 of guild 1 posts the URL text
\* or the image in any channel, and the message with five attachments in
\* channel 1; author 1 of guild 2 (the guild with a special channel) posts
\* the URL text in any channel; author 2 of guild 1, a bot, a webhook and a
\* direct message post the URL text in channel 3.
RawMessages(id) ==
    { RawMessage(id, 1, 1, FALSE, FALSE, ch, sh) :
        ch \in Channels, sh \in {Shape_url, Shape_image} }
    \cup { RawMessage(id, 1, 1, FALSE, FALSE, 1, Shape_images) }
    \cup { RawMessage(id, 2, 1, FALSE, FALSE, ch, Shape_url) : ch \in Channels }
    \cup { RawMessage(id, 1, 2, FALSE, FALSE, 3, Shape_url),
           RawMessage(id, 1, 1, TRUE, FALSE, 3, Shape_url),
           RawMessage(id, 1, 1, FALSE, TRUE, 3, Shape_url),
           RawMessage(id, None, 1, FALSE, FALSE, 3, Shape_url) }

(***************************************************************************)
(* The on_message coroutine.  pc is the await at which the task is         *)
(* suspended:                                                              *)
(*   "idle"      the event has not been dispatched                         *)
(*   "read"      await attachment.read()            (extract_image_hash)   *)
(*   "deleting"  await fetch_channel / message.delete()  (delete_message)  *)
(*   "timing"    await message.author.timeout(...)                         *)
(*   "sending"   await fetch_channel / channel.send(timeout_msg)           *)
(*   "done"      the coroutine returned                                    *)
(*   "crashed"   an exception left the coroutine                           *)
(***************************************************************************)
Tasks == 1..MaxEvents

Suspended(t) == t.pc \in {"read", "deleting", "timing", "sending"}

IdleTask ==
    [ pc |-> "idle",
      message |-> NoMessage,
      image_hashes |-> <<>>,   \* the local list of from_discord_message
      att |-> 0,               \* index of the attachment being read
      it |-> 0,                \* elements consumed by "for scam_message in scam_messages"
      matched |-> <<>>,        \* the window is_scam returned True for
      attempted |-> {},        \* ids of the messages delete_message was called with
      suspended |-> 0,         \* minutes of the timeout that returned normally
      target |-> None,         \* channel the notification is being sent to
      notified |-> None,       \* channel send(timeout_msg) returned normally for
      appended |-> FALSE,      \* add_message appended the fingerprint
      cleared |-> FALSE,       \* clear_messages ran
      raised |-> "" ]          \* the call whose exception left the coroutine

EmptyStore == [k \in Keys |-> <<>>]

NoCall == [op |-> "none", val |-> FALSE]

Init ==
    /\ store = EmptyStore
    /\ nextId = 0
    /\ task = [h \in Tasks |-> IdleTask]
    /\ fnLst = <<>>
    /\ fnOut = NoCall

\* The test of line 186 without its webhook_id disjunct.
Skipped_without_webhook(message) ==
    message.bot \/ message.guild = None

\* Line 186: bot messages, DMs and webhooks are skipped.
Skipped(message) ==
    message.bot \/ message.guild = None \/ message.webhook

\* An exception propagates out of on_message.
Raise(t, call) == [t EXCEPT !.pc = "crashed", !.raised = call]

\* Line 225, then the coroutine returns.
ClearAndReturn(t, st) ==
    [ store |-> clear_messages(st, t.message.guild, t.message.author),
      task |-> [t EXCEPT !.pc = "done", !.cleared = TRUE] ]

\* AddAndClassify with the clear of line 225 outside the "if is_scam" block.
AddAndClassify_clears_always(t, st) ==
    LET fingerprint == from_discord_message(t.message, t.image_hashes)
        added == add_message(st, t.message, fingerprint)
        scam_messages == get_scam_messages(added, t.message)
    IN  IF is_scam(added, t.message)
        THEN [ store |-> added,
               task |-> [t EXCEPT !.pc = "deleting", !.appended = TRUE,
                                  !.matched = scam_messages, !.it = 1,
                                  !.attempted = {scam_messages[1].id}] ]
        ELSE [ store |-> clear_messages(added, t.message.guild, t.message.author),
               task |-> [t EXCEPT !.pc = "done", !.appended = TRUE,
                                  !.cleared = TRUE] ]


\* Lines 110-113 after the fingerprint is built, then lines 192-196 up to
\* the first await of the delete loop.  scam_messages is the list object of
\* the store itself, not a copy: the loop reads the live window.
AddAndClassify(t, st) ==
    LET fingerprint == from_discord_message(t.message, t.image_hashes)
        added == add_message(st, t.message, fingerprint)
        scam_messages == get_scam_messages(added, t.message)
    IN  IF is_scam(added, t.message)
        THEN [ store |-> added,
               task |-> [t EXCEPT !.pc = "deleting", !.appended = TRUE,
                                  !.matched = scam_messages, !.it = 1,
                                  !.attempted = {scam_messages[1].id}] ]
        ELSE [ store |-> added,
               task |-> [t EXCEPT !.pc = "done", !.appended = TRUE] ]

\* The loop of from_discord_message from attachment `from` on: it suspends at
\* the next qualifying attachment, or ends and the message is added.
Fingerprint(t, st, from) ==
    LET q == NextQualifying(t.message.attachments, from)
    IN  IF q = 0 THEN AddAndClassify(t, st)
        ELSE [store |-> st, task |-> [t EXCEPT !.pc = "read", !.att = q]]

\* A message event is dispatched and its task runs to its first await.  Tasks
\* start in the order of their events; at most MaxInFlight tasks overlap.
on_message(message) ==
    /\ nextId < MaxEvents
    /\ Cardinality({h \in Tasks : Suspended(task[h])}) < MaxInFlight
    /\ LET h == nextId + 1
           t == [IdleTask EXCEPT !.message = message]
           r == IF Skipped(message)
                THEN [store |-> store, task |-> [t EXCEPT !.pc = "done"]]
                ELSE Fingerprint(t, store, 1)
       IN  /\ store' = r.store
           /\ task' = [task EXCEPT ![h] = r.task]
    /\ nextId' = nextId + 1
    /\ UNCHANGED <<fnLst, fnOut>>

ReadOutcomes == {"ok", "NotFound", "Forbidden", "HTTPException"}

\* await attachment.read() returns or raises (lines 54-57, then the loop).
attachment_read_returns(h, outcome) ==
    /\ task[h].pc = "read"
    /\ LET t == task[h]
           image == t.message.attachments[t.att].image
           r == IF outcome = "ok"
                THEN Fingerprint(
                         [t EXCEPT !.image_hashes = Append(@, get_image_hash(image))],
                         store, t.att + 1)
                ELSE [store |-> store, task |-> Raise(t, "attachment.read")]
       IN  /\ store' = r.store
           /\ task' = [task EXCEPT ![h] = r.task]
    /\ UNCHANGED <<nextId, fnLst, fnOut>>


\* What one call of delete_message(scam_message) can end in (lines 156-172):
\* fetch_channel raises; the channel is of a kind the function returns on;
\* message.delete() returns; it raises NotFound or Forbidden, which the
\* suppress block swallows; it raises another HTTPException.  The two awaits
\* of one call touch no window between them, so the task resumes once per
\* call, with the outcome of the call.
DeleteOutcomes ==
    {"fetch_channel_raises", "undeletable_channel", "deleted",
     "NotFound", "Forbidden", "HTTPException"}

\* The next step of "for scam_message in scam_messages" (line 195) once a
\* call of delete_message has returned: the list iterator reads position
\* `it` of the live list; after the loop comes the timeout (lines 199-205),
\* or the clear at once when the author is no Member.
NextDelete(t, st, is_member) ==
    LET scam_messages == get_scam_messages(st, t.message)
    IN  IF t.it < Len(scam_messages)
        THEN [ store |-> st,
               task |-> [t EXCEPT !.it = @ + 1,
                                  !.attempted = @ \cup {scam_messages[t.it + 1].id}] ]
        ELSE IF is_member
        THEN [store |-> st, task |-> [t EXCEPT !.pc = "timing"]]
        ELSE ClearAndReturn(t, st)

delete_returns(h, outcome, is_member) ==
    /\ task[h].pc = "deleting"
    /\ LET t == task[h]
           r == IF outcome = "fetch_channel_raises"
                THEN [store |-> store, task |-> Raise(t, "bot.fetch_channel")]
                ELSE IF outcome = "HTTPException"
                THEN [store |-> store, task |-> Raise(t, "message.delete")]
                ELSE NextDelete(t, store, is_member)
       IN  /\ store' = r.store
           /\ task' = [task EXCEPT ![h] = r.task]
    /\ UNCHANGED <<nextId, fnLst, fnOut>>

TimeoutOutcomes == {"ok", "NotFound", "Forbidden", "HTTPException"}

\* Lines 213-223: the channel the notification goes to.
NotificationChannel(message) ==
    IF message.guild \in DOMAIN SPECIAL_GUILD_CHANNELS
    THEN SPECIAL_GUILD_CHANNELS[message.guild]
    ELSE message.channel

\* await message.author.timeout(...) returns or raises (lines 202-223).
timeout_returns(h, outcome) ==
    /\ task[h].pc = "timing"
    /\ LET t == task[h]
           r == IF outcome = "ok"
                THEN [ store |-> store,
                       task |-> [t EXCEPT !.pc = "sending", !.suspended = TIMEOUT_MINUTES,
                                          !.target = NotificationChannel(t.message)] ]
                ELSE IF outcome \in {"NotFound", "Forbidden"}
                THEN ClearAndReturn(t, store)
                ELSE [store |-> store, task |-> Raise(t, "author.timeout")]
       IN  /\ store' = r.store
           /\ task' = [task EXCEPT ![h] = r.task]
    /\ UNCHANGED <<nextId, fnLst, fnOut>>

\* What the notification can end in: the send returns or raises; for the
\* special channel, fetch_channel may raise first, or the channel may be of
\* a kind nothing is sent to.  As for delete_message, the task resumes once,
\* with the outcome of the whole notification.
SendOutcomes(message) ==
    {"sent", "send_raises"}
    \cup IF message.guild \in DOMAIN SPECIAL_GUILD_CHANNELS
         THEN {"fetch_channel_raises", "unsendable_channel"}
         ELSE {}

send_returns(h, outcome) ==
    /\ task[h].pc = "sending"
    /\ outcome \in SendOutcomes(task[h].message)
    /\ LET t == task[h]
           r == IF outcome = "sent"
                THEN ClearAndReturn([t EXCEPT !.notified = t.target], store)
                ELSE IF outcome = "unsendable_channel"
                THEN ClearAndReturn(t, store)
                ELSE IF outcome = "fetch_channel_raises"
                THEN [store |-> store, task |-> Raise(t, "guild.fetch_channel")]
                ELSE [store |-> store, task |-> Raise(t, "channel.send")]
       IN  /\ store' = r.store
           /\ task' = [task EXCEPT ![h] = r.task]
    /\ UNCHANGED <<nextId, fnLst, fnOut>>

Next ==
    \/ \E message \in RawMessages(nextId + 1) : on_message(message)
    \/ \E h \in Tasks, outcome \in ReadOutcomes : attachment_read_returns(h, outcome)
    \/ \E h \in Tasks, outcome \in DeleteOutcomes, is_member \in BOOLEAN :
           delete_returns(h, outcome, is_member)
    \/ \E h \in Tasks, outcome \in TimeoutOutcomes : timeout_returns(h, outcome)
    \/ \E h \in Tasks, outcome \in {"sent", "send_raises", "fetch_channel_raises",
                                    "unsendable_channel"} :
           send_returns(h, outcome)

Spec == Init /\ [][Next]_vars


(***************************************************************************)
(* Direct calls of the pure functions.  SpecFn starts from any window of   *)
(* at most MAX_MESSAGE_NUM messages for one key, or from any list of at    *)
(* most FnMaxLen values of one type, and calls is_scam, all_same or        *)
(* all_different on it.                                                    *)
(***************************************************************************)
FnContents ==
    {Str_empty, Str_hi, Str_url_a, Str_url_b, Str_url_bare, Str_url_space}

FnHashSets == {{}, {1}, {1, 2}}

FnFingerprints ==
    [channel_id : Channels, content : FnContents, image_hashes : FnHashSets]

\* The window of n messages with fingerprints f[1..n] and ids 1..n.
FnWindow(n, f) ==
    [i \in 1..n |-> [ id |-> i,
                      channel_id |-> f[i].channel_id,
                      content |-> f[i].content,
                      image_hashes |-> f[i].image_hashes ]]

FnValues ==
    { {PyStr(c) : c \in FnContents},
      {PyFrozenset(S) : S \in FnHashSets},
      {PyInt(n) : n \in 0..2} }

FnKey == <<1, 1>>
FnMessage == RawMessage(1, FnKey[1], FnKey[2], FALSE, FALSE, 1, Shape_url)

InitFn ==
    /\ nextId = 0
    /\ task = [h \in Tasks |-> IdleTask]
    /\ fnOut = NoCall
    /\ \/ /\ \E n \in 0..MAX_MESSAGE_NUM : \E f \in [1..n -> FnFingerprints] :
                 store = [EmptyStore EXCEPT ![FnKey] = FnWindow(n, f)]
          /\ fnLst = <<>>
       \/ /\ store = EmptyStore
          /\ \E V \in FnValues : \E n \in 0..FnMaxLen : fnLst \in [1..n -> V]

call_is_scam ==
    /\ fnOut = NoCall
    /\ fnOut' = [op |-> "is_scam", val |-> is_scam(store, FnMessage)]
    /\ UNCHANGED <<store, nextId, task, fnLst>>

call_all_same ==
    /\ fnOut = NoCall
    /\ store = EmptyStore
    /\ fnOut' = [op |-> "all_same", val |-> all_same(fnLst)]
    /\ UNCHANGED <<store, nextId, task, fnLst>>

call_all_different ==
    /\ fnOut = NoCall
    /\ store = EmptyStore
    /\ fnOut' = [op |-> "all_different", val |-> all_different(fnLst)]
    /\ UNCHANGED <<store, nextId, task, fnLst>>

NextFn == call_is_scam \/ call_all_same \/ call_all_different

SpecFn == InitFn /\ [][NextFn]_vars


(***************************************************************************)
(* Properties.                                                             *)
(***************************************************************************)
\* The window the direct call of is_scam classifies.
FnWin == store[FnKey]

\* s holds scheme at position i, followed by a character that is no
\* whitespace.
SchemeThenNonSpaceAt(s, i, scheme) ==
    /\ i + Len(scheme) <= Len(s)
    /\ SubSeq(s, i, i + Len(scheme) - 1) = scheme
    /\ s[i + Len(scheme)] \notin Whitespace

HoldsUrl(s) ==
    \E i \in 1..Len(s) :
        \/ SchemeThenNonSpaceAt(s, i, <<"h", "t", "t", "p", ":", "/", "/">>)
        \/ SchemeThenNonSpaceAt(s, i, <<"h", "t", "t", "p", "s", ":", "/", "/">>)

SameContent(w) ==
    /\ \A i, j \in 1..Len(w) : w[i].content = w[j].content
    /\ \A i \in 1..Len(w) : w[i].content # <<>>

DifferentChannels(w) ==
    \A i, j \in 1..Len(w) : i # j => w[i].channel_id # w[j].channel_id

AllContainUrl(w) == \A i \in 1..Len(w) : HoldsUrl(w[i].content)

SameImages(w) ==
    /\ \A i, j \in 1..Len(w) : w[i].image_hashes = w[j].image_hashes
    /\ \A i \in 1..Len(w) : w[i].image_hashes # {}

\* C1: for every window of exactly MAX_MESSAGE_NUM messages, is_scam returns
\* True if and only if the channel ids are pairwise distinct and either all
\* contents are equal, non-empty and URL-bearing, or all image-hash sets are
\* equal and non-empty.
C1_IsScamRule ==
    (fnOut.op = "is_scam" /\ Len(FnWin) = MAX_MESSAGE_NUM)
        => (fnOut.val <=>
               (DifferentChannels(FnWin)
                /\ ((SameContent(FnWin) /\ AllContainUrl(FnWin)) \/ SameImages(FnWin))))

\* C1 witness: is_scam returned False for a full window with equal, non-empty
\* image-hash sets whose channels are not pairwise distinct.
C1_Witness ==
    /\ fnOut = [op |-> "is_scam", val |-> FALSE]
    /\ Len(FnWin) = MAX_MESSAGE_NUM
    /\ SameImages(FnWin)
    /\ ~DifferentChannels(FnWin)

\* A value that is not the empty str, the empty frozenset or 0.
NonEmptyValue(x) ==
    /\ x.type = "str" => x.val # <<>>
    /\ x.type = "frozenset" => x.val # {}
    /\ x.type = "int" => x.val # 0

\* C10: all_same(lst) is True exactly when lst has at least two elements, all
\* elements are equal and the shared element is non-empty.
C10_AllSame ==
    fnOut.op = "all_same"
        => (fnOut.val <=>
               /\ Len(fnLst) >= 2
               /\ \A i, j \in 1..Len(fnLst) : fnLst[i] = fnLst[j]
               /\ NonEmptyValue(fnLst[1]))

\* C10 witness: all_same returned False for a list of two empty strings.
C10_Witness ==
    /\ fnOut = [op |-> "all_same", val |-> FALSE]
    /\ fnLst = <<PyStr(<<>>), PyStr(<<>>)>>


\* The task of event h appends its fingerprint in this step.
Appends(h) == ~task[h].appended /\ task'[h].appended

\* The task of event h has no remediation effect on record.
NoRemediation(t) ==
    /\ t.matched = <<>>
    /\ t.attempted = {}
    /\ t.suspended = 0
    /\ t.target = None
    /\ t.notified = None
    /\ ~t.cleared

\* C2: a message that leaves its author's window with fewer than
\* MAX_MESSAGE_NUM entries is classified NotSpam: its task returns in the
\* step of the append with no delete, suspension, notification or clear, and
\* a task that has returned does nothing more.
C2_ShortWindowNotSpam ==
    [][\A h \in Tasks :
          /\ (Appends(h) /\ Len(store'[KeyOf(task'[h].message)]) < MAX_MESSAGE_NUM)
                => (task'[h].pc = "done" /\ NoRemediation(task'[h]))
          /\ task[h].pc = "done" => task'[h] = task[h]]_vars

\* C2 witness: a task has returned after its append left a window of two
\* messages with the same URL-bearing content in two distinct channels.
C2_Witness ==
    \E h \in Tasks :
        LET w == store[KeyOf(task[h].message)]
        IN  /\ task[h].pc = "done"
            /\ task[h].appended
            /\ Len(w) = 2
            /\ w[2].id = h
            /\ SameContent(w) /\ AllContainUrl(w) /\ DifferentChannels(w)

\* C3: in every reachable state every window has at most MAX_MESSAGE_NUM
\* messages.
C3_WindowBounded == \A k \in Keys : Len(store[k]) <= MAX_MESSAGE_NUM

\* C3 witness: more than MAX_MESSAGE_NUM messages were appended to one key,
\* none was cleared, and its window holds MAX_MESSAGE_NUM messages.
C3_Witness ==
    \E k \in Keys :
        /\ Cardinality({h \in Tasks : task[h].appended /\ KeyOf(task[h].message) = k})
               > MAX_MESSAGE_NUM
        /\ \A h \in Tasks : ~task[h].cleared
        /\ Len(store[k]) = MAX_MESSAGE_NUM

\* C4: an append to a window of MAX_MESSAGE_NUM messages leaves the window
\* without its first entry, the others in order, followed by the new
\* message; an append to a shorter window evicts nothing.
C4_FifoEviction ==
    [][\A h \in Tasks :
          Appends(h) =>
              LET k == KeyOf(task'[h].message)
                  new == from_discord_message(task'[h].message, task'[h].image_hashes)
              IN  IF Len(store[k]) = MAX_MESSAGE_NUM
                  THEN store'[k] = Append(Tail(store[k]), new)
                  ELSE store'[k] = Append(store[k], new)]_vars

\* C4 witness: messages 1 to 4 were appended to one key, none was cleared,
\* and the window holds messages 2, 3, 4 in this order.
C4_Witness ==
    \E k \in Keys :
        /\ \A h \in 1..4 : task[h].appended /\ KeyOf(task[h].message) = k
        /\ \A h \in Tasks : ~task[h].cleared
        /\ Len(store[k]) = 3
        /\ \A i \in 1..3 : store[k][i].id = i + 1

\* C9: an event whose author is a bot, that comes from a webhook or that has
\* no guild changes no window; its task returns at once, with no
\* classification, delete, suspension or notification.
C9_SkippedEventsChangeNothing ==
    [][\A h \in Tasks :
          LET m == task'[h].message
          IN  (task[h].pc = "idle" /\ task'[h].pc # "idle"
               /\ (m.bot \/ m.webhook \/ m.guild = None))
                  => /\ store' = store
                     /\ task'[h] = [IdleTask EXCEPT !.message = m, !.pc = "done"]]_vars

\* C9 witness: a bot message, a webhook message and a direct message have
\* been handled while the window of guild 1, author 1 holds a message.
C9_Witness ==
    /\ \E h \in Tasks : task[h].pc = "done" /\ task[h].message.bot
    /\ \E h \in Tasks : task[h].pc = "done" /\ task[h].message.webhook
    /\ \E h \in Tasks : task[h].pc = "done" /\ task[h].message.guild = None
                        /\ task[h].message.id = h
    /\ Len(store[<<1, 1>>]) = 1


\* The ids of the messages of the window the task of event h matched.
MatchedIds(t) == {t.matched[i].id : i \in 1..Len(t.matched)}

\* C5: when the channel of one message of the matched window cannot be
\* resolved, a delete is still attempted for every message of that window.
C5_DeletesSurviveFailure ==
    \A h \in Tasks :
        task[h].raised = "bot.fetch_channel" => MatchedIds(task[h]) \subseteq task[h].attempted

\* C6: once the task of a positive classification has ended, whatever its
\* delete, suspension and notification calls ended in, it has cleared the
\* author's window.
C6_ClearFollowsSpam ==
    \A h \in Tasks :
        (task[h].matched # <<>> /\ task[h].pc \in {"done", "crashed"}) => task[h].cleared

\* C7: when reading one qualifying attachment fails, the message is still
\* appended to its author's window.
C7_ReadFailureKeepsMessage ==
    \A h \in Tasks : task[h].raised = "attachment.read" => task[h].appended

\* C8: the clear that ends a remediation wipes only messages of the window
\* that remediation matched: a message appended while the remediation was in
\* flight is not wiped.
C8_ClearWipesOnlyMatched ==
    [][\A h \in Tasks :
          (~task[h].cleared /\ task'[h].cleared) =>
              LET w == store[KeyOf(task[h].message)]
              IN  \A i \in 1..Len(w) : w[i].id \in MatchedIds(task[h])]_vars

\* C11: all_different(lst) is True exactly when the elements of lst are
\* pairwise distinct; it is True for the empty list and for a list of one
\* element.
C11_AllDifferent ==
    fnOut.op = "all_different"
        => (fnOut.val <=>
               \A i, j \in 1..Len(fnLst) : i # j => fnLst[i] # fnLst[j])

\* C11 witness: all_different returned False for a list of three elements
\* whose first two are equal and whose third differs.
C11_Witness ==
    /\ fnOut = [op |-> "all_different", val |-> FALSE]
    /\ Len(fnLst) = 3
    /\ fnLst[1] = fnLst[2]
    /\ fnLst[3] # fnLst[1]

\* The store with the window of FnKey reordered by the permutation p.
Permuted(st, p) ==
    [st EXCEPT ![FnKey] = [i \in 1..Len(st[FnKey]) |-> st[FnKey][p[i]]]]

\* C19: the result of is_scam is the same for every reordering of the window
\* it classifies, and the call leaves the store unchanged.
C19_OrderIndependent ==
    [][fnOut'.op = "is_scam" =>
          /\ store' = store
          /\ \A p \in Permutations(1..Len(FnWin)) :
                 is_scam(Permuted(store, p), FnMessage) = fnOut'.val]_vars

\* C19 witness: is_scam returned True for a window of MAX_MESSAGE_NUM
\* messages that are not all equal up to their ids.
C19_Witness ==
    /\ fnOut = [op |-> "is_scam", val |-> TRUE]
    /\ Len(FnWin) = MAX_MESSAGE_NUM
    /\ FnWin[1].content # FnWin[2].content

\* The channel the claim names for the notification of a message: the
\* override channel of the guild when it has one, else the message's channel.
ExpectedNotification(message) ==
    IF message.guild = 2 THEN 4 ELSE message.channel

\* C12: for each positive classification whose task has ended, if the
\* suspension succeeded a notification was sent (the send was at least
\* issued) to the override channel of the guild when one is configured, else
\* to the channel of the triggering message; if the suspension failed or was
\* not attempted, none was sent.
C12_SuspensionNotifies ==
    \A h \in Tasks :
        (task[h].matched # <<>> /\ task[h].pc \in {"done", "crashed"}) =>
            IF task[h].suspended # 0
            THEN \/ task[h].notified = ExpectedNotification(task[h].message)
                 \/ task[h].raised = "channel.send"
            ELSE task[h].notified = None

\* C13: once the delete loop of a remediation has run to its end, the
\* messages it called delete_message with are exactly those of the window
\* that was classified Spam, also when it is the only remediation and other
\* events of the author were appended while it awaited its deletes.
C13_DeletesExactlyMatched ==
    \A h \in Tasks :
        (/\ task[h].matched # <<>>
         /\ task[h].pc \in {"timing", "sending", "done"}
         /\ \A g \in Tasks \ {h} : task[g].matched = <<>>)
            => task[h].attempted = MatchedIds(task[h])

\* C14: no message is in the matched window of two positive classifications.
C14_EvidenceUsedOnce ==
    \A h1, h2 \in Tasks :
        (h1 # h2 /\ task[h1].matched # <<>> /\ task[h2].matched # <<>>)
            => MatchedIds(task[h1]) \cap MatchedIds(task[h2]) = {}

\* C15: every window holds its messages in the order in which their events
\* arrived.
C15_ArrivalOrder ==
    \A k \in Keys :
        \A i, j \in 1..Len(store[k]) : i < j => store[k][i].id < store[k][j].id

\* The rule of the classifier, stated on a window.
SpamRule(w) ==
    /\ Len(w) = MAX_MESSAGE_NUM
    /\ DifferentChannels(w)
    /\ (AllContainUrl(w) /\ SameContent(w)) \/ SameImages(w)

\* C16: when the window left by the append of a message does not satisfy the
\* rule, the task returns in the step of the append with no delete, no
\* suspension, no notification and no clear, the window ends with the
\* appended message, and the task does nothing afterwards.
C16_NotSpamIsNoOp ==
    [][\A h \in Tasks :
          LET w == store'[KeyOf(task'[h].message)]
          IN  /\ (Appends(h) /\ ~SpamRule(w))
                    => /\ task'[h].pc = "done"
                       /\ NoRemediation(task'[h])
                       /\ w # <<>>
                       /\ w[Len(w)].id = h
              /\ (task[h].pc = "done" /\ task[h].matched = <<>>)
                    => task'[h] = task[h]]_vars

\* C16 witness: a task has returned with nothing done after its append left
\* a full window of one URL-bearing content in which two messages share a
\* channel.
C16_Witness ==
    \E h \in Tasks :
        LET w == store[KeyOf(task[h].message)]
        IN  /\ task[h].pc = "done"
            /\ task[h].appended
            /\ NoRemediation(task[h])
            /\ Len(w) = MAX_MESSAGE_NUM
            /\ w[MAX_MESSAGE_NUM].id = h
            /\ SameContent(w) /\ AllContainUrl(w) /\ ~DifferentChannels(w)

\* C17: a step of the task of an event changes no window but that of the
\* event's own (guild, author) key, and the classification made at the append
\* is decided by that window alone.
C17_OtherKeysUntouched ==
    [][\A h \in Tasks :
          LET own == KeyOf(task'[h].message)
          IN  /\ task'[h] # task[h]
                    => \A k \in Keys \ {own} : store'[k] = store[k]
              /\ Appends(h) => (task'[h].matched # <<>> <=> SpamRule(store'[own]))]_vars

\* C17 witness: a remediation has ended with its clear while the same author
\* in the other guild, or the other author in the same guild, has a message
\* in their window.
C17_Witness ==
    \E h \in Tasks :
        /\ task[h].pc = "done"
        /\ task[h].cleared
        /\ KeyOf(task[h].message) = <<1, 1>>
        /\ store[<<1, 1>>] = <<>>
        /\ store[<<2, 1>>] # <<>> \/ store[<<1, 2>>] # <<>>

\* The task of event h has a remediation effect on record or under way.
Remediating(t) ==
    \/ t.pc \in {"deleting", "timing", "sending"}
    \/ t.attempted # {}
    \/ t.suspended # 0
    \/ t.notified # None
    \/ t.cleared

\* The channels of the messages appended so far for the key of task h.
ChannelsPostedIn(h) ==
    { task[g].message.channel :
          g \in {g \in Tasks : /\ task[g].appended
                               /\ KeyOf(task[g].message) = KeyOf(task[h].message)} }

\* C18: whenever a remediation is triggered, the classified window holds
\* exactly MAX_MESSAGE_NUM messages posted in pairwise distinct channels, and
\* no remediation is triggered for a key whose messages were all posted in
\* one channel.
C18_RemediationNeedsThreeChannels ==
    \A h \in Tasks :
        Remediating(task[h]) =>
            /\ Len(task[h].matched) = MAX_MESSAGE_NUM
            /\ DifferentChannels(task[h].matched)
            /\ Cardinality(ChannelsPostedIn(h)) >= MAX_MESSAGE_NUM

\* C18 witness: a remediation was triggered by three messages with the same
\* image and no URL, and its deletes are under way or over.
C18_Witness ==
    \E h \in Tasks :
        /\ task[h].attempted # {}
        /\ SameImages(task[h].matched)
        /\ ~AllContainUrl(task[h].matched)

\* C20: every message delete_message is called with was appended to the
\* window of the triggering message's (guild, author) key, and a suspension
\* is that of the author of every message of the matched window.
C20_RemediationStaysWithAuthor ==
    \A h \in Tasks :
        /\ \A id \in task[h].attempted :
               /\ task[id].appended
               /\ KeyOf(task[id].message) = KeyOf(task[h].message)
        /\ task[h].suspended # 0 =>
               \A id \in MatchedIds(task[h]) :
                   task[id].message.author = task[h].message.author

\* C20 witness: a remediation called delete_message three times and
\* suspended the author while a message of another key was in its window.
C20_Witness ==
    \E h \in Tasks :
        /\ Cardinality(task[h].attempted) = MAX_MESSAGE_NUM
        /\ task[h].suspended # 0
        /\ \E k \in Keys \ {KeyOf(task[h].message)} : store[k] # <<>>

=============================================================================
